---------------------------- MODULE Spec2Model ----------------------------
(***************************************************************************)
(* A model of the colour library getcuia/ochre (and of melanin, the name   *)
(* under which earlier versions of the same library live in the tree).     *)
(*                                                                         *)
(* The library is a set of pure functions over immutable values.  Each     *)
(* group of functions is modelled by a small state machine whose initial   *)
(* states draw the inputs from bounded sets and whose actions are the      *)
(* calls made on them:                                                     *)
(*                                                                         *)
(*   SpecClosest   the closest-colour search (melanin._closest_color_rgb,  *)
(*                 a loop, one action per iteration; ochre.Color.closest)  *)
(*   SpecPalette   construction of Ansi256 and WebColor values and their   *)
(*                 projection to RGB                                       *)
(*   SpecColorsys  the colour-space conversions of melanin.colorsys, in a  *)
(*                 binary floating point of reduced precision              *)
(***************************************************************************)
EXTENDS Integers, Sequences, FiniteSets, TLC

VARIABLES
    pc,                \* position of the running call
    impl,              \* which implementation is called: "melanin" | "ochre"
    arg,               \* the argument of the constructor or function called
    self,              \* the colour object, once constructed
    color,             \* closest search: the query colour (an RGB)
    colors,            \* closest search: the candidates, in iteration order
    idx,               \* closest search: 1-based position of the iterator
    minimal_color,     \* closest search: index of the best candidate, None = 0
    minimal_distance,  \* closest search: distance of the best candidate
    result             \* what the call returned or raised

vars == <<pc, impl, arg, self, color, colors, idx, minimal_color, minimal_distance, result>>

(***************************************************************************)
(* Values.  In the palette and search part of the model an RGB channel is  *)
(* an integer number of 255ths (the library builds these channels as       *)
(* byte / 255), or inf, Python's float("inf"), which RGB(...) accepts      *)
(* like any other float.  NaN is not modelled: every distance of the model *)
(* is comparable with every other.                                         *)
(***************************************************************************)
None == 0

\* math.inf: above every finite value of the model.
inf == 2000000000

Returned(v) == [kind |-> "return", value |-> v]
Raised(e) == [kind |-> "raise", exc |-> e]
NoResult == [kind |-> "none"]
NoObject == [cls |-> "none"]
NoArg == [cls |-> "none"]

RECURSIVE ISqrtIter(_, _, _)
\* The largest r in lo..hi with r * r <= n (lo * lo <= n is given).
ISqrtIter(n, lo, hi) ==
    IF lo >= hi THEN lo
    ELSE IF ((lo + hi + 1) \div 2) * ((lo + hi + 1) \div 2) <= n
         THEN ISqrtIter(n, (lo + hi + 1) \div 2, hi)
         ELSE ISqrtIter(n, lo, (lo + hi + 1) \div 2 - 1)

\* math.sqrt on a non-negative integer below 2^31, rounded down.
ISqrt(n) == ISqrtIter(n, 0, 46340)

\* Float subtraction of two channels; inf - finite is inf.
ChanDiff(a, b) == IF a = inf \/ b = inf THEN inf ELSE a - b

\* The square root of the sum of three squared differences, in units of
\* 1/25500: the root of the sum, taken in 255ths squared, is kept to two
\* more decimal digits and rounded down, as a float square root rounds; inf
\* when a difference is.
RootOfSquares(dr, dg, db) ==
    IF dr = inf \/ dg = inf \/ db = inf THEN inf
    ELSE ISqrt(10000 * (dr * dr + dg * dg + db * db))

\* melanin/spaces.py _dist_rgb: sqrt of the sum of the squared channel
\* differences.
dist_rgb(color1, color2) ==
    RootOfSquares(ChanDiff(color1[1], color2[1]),
                  ChanDiff(color1[2], color2[2]),
                  ChanDiff(color1[3], color2[3]))

(***************************************************************************)
(* Floating point.                                                         *)
(*                                                                         *)
(* melanin/colorsys.py computes on Python floats.  The model computes on a *)
(* binary floating-point format of the same kind as IEEE 754 binary64 but  *)
(* narrower: a float is an integer number of units of 2^-FracBits with at  *)
(* most Precision significant bits, every operation returns the exact      *)
(* result rounded to the nearest float, ties to even, and a result below   *)
(* one unit is rounded to a multiple of the unit (gradual underflow).      *)
(* Infinities and NaN are not part of the format.                          *)
(*                                                                         *)
(* The functions of the C library (pow, atan2, hypot) are computed from    *)
(* their series with four more bits and rounded once at the end.           *)
(***************************************************************************)
Precision == 8
FracBits == 16

Abs(n) == IF n < 0 THEN 0 - n ELSE n
Sign(n) == IF n < 0 THEN 0 - 1 ELSE 1
Max(a, b) == IF a >= b THEN a ELSE b
Min(a, b) == IF a <= b THEN a ELSE b

RECURSIVE BitLen(_)
\* The number of bits of a natural number: 0 for 0.
BitLen(n) == IF n = 0 THEN 0 ELSE 1 + BitLen(n \div 2)

RECURSIVE TrailingZeros(_)
\* The number of trailing zero bits of a positive number.
TrailingZeros(n) == IF n % 2 = 1 THEN 0 ELSE 1 + TrailingZeros(n \div 2)

\* The quotient q0 of a division by 2^s, with remainder rem, rounded to the
\* nearest integer, a tie to the even one.
NearestEven(q0, rem, s) ==
    IF s = 0 THEN q0
    ELSE IF rem > 2^(s - 1) \/ (rem = 2^(s - 1) /\ q0 % 2 = 1)
         THEN q0 + 1 ELSE q0

\* m * 2^e units with the s lowest bits of m rounded away.
RoundShift(m, e, s) == NearestEven(m \div 2^s, m % 2^s, s) * 2^(s + e)

\* m * 2^e units (m >= 0, e any integer) rounded to a float of p bits.
RoundUnits(p, m, e) == RoundShift(m, e, Max(Max(0, 0 - e), BitLen(m) - p))

\* The odd mantissa and the exponent of a non-zero float: |n| = m * 2^k.
Mantissa(n) == Abs(n) \div 2^TrailingZeros(Abs(n))
Exponent(n) == TrailingZeros(Abs(n))

\* The float of an integer literal.
FromInt(n) == Sign(n) * RoundUnits(Precision, Abs(n), FracBits)

RECURSIVE DivBits(_, _, _, _)
\* Long division: nbits more quotient bits after acc, from remainder rem.
DivBits(rem, den, nbits, acc) ==
    IF nbits = 0 THEN <<acc, rem>>
    ELSE IF 2 * rem >= den
         THEN DivBits(2 * rem - den, den, nbits - 1, 2 * acc + 1)
         ELSE DivBits(2 * rem, den, nbits - 1, 2 * acc)

\* A quotient of 24 fraction bits and its remainder, rounded to p bits.
FromQuotient(p, qr) ==
    RoundUnits(p, 2 * qr[1] + (IF qr[2] = 0 THEN 0 ELSE 1), FracBits - 25)

\* The float of p bits nearest to num / den (0 <= num < 64 * den): a
\* decimal literal such as 3.2406254 is FromRatio(p, 32406254, 10000000).
FromRatio(p, num, den) ==
    FromQuotient(p, DivBits(num % den, den, 24, num \div den))

Lit(num, den) == FromRatio(Precision, num, den)

FAddP(p, a, b) == Sign(a + b) * RoundUnits(p, Abs(a + b), 0)
FSubP(p, a, b) == FAddP(p, a, 0 - b)

FMulP(p, a, b) ==
    IF a = 0 \/ b = 0 THEN 0
    ELSE Sign(a) * Sign(b) *
         RoundUnits(p, Mantissa(a) * Mantissa(b),
                    Exponent(a) + Exponent(b) - FracBits)

\* num / mb * 2^e: the quotient and a sticky bit, then one rounding.
DivRound(p, num, mb, e) ==
    RoundUnits(p, 2 * (num \div mb) + (IF num % mb = 0 THEN 0 ELSE 1), e - 1)

\* ma / mb * 2^k with the dividend shifted by t bits.
DivShift(p, ma, mb, k, t) == DivRound(p, ma * 2^t, mb, k + FracBits - t)

\* a / b for b # 0: p + 2 quotient bits and a sticky bit, then one rounding.
FDivP(p, a, b) ==
    IF a = 0 THEN 0
    ELSE Sign(a) * Sign(b) *
         DivShift(p, Mantissa(a), Mantissa(b), Exponent(a) - Exponent(b),
                  Max(0, p + 2 + BitLen(Mantissa(b)) - BitLen(Mantissa(a))))

\* The root r of big (rounded down) times 2^e, with a sticky bit, rounded.
SqrtRound(p, big, r, e) ==
    RoundUnits(p, 2 * r + (IF r * r = big THEN 0 ELSE 1), e + FracBits - 1)

\* The square root of m * 2^k with m shifted by 2 t bits, and by one more
\* when that leaves an odd exponent.
SqrtShift(p, m, k, t) ==
    SqrtRound(p, m * 2^(2 * t + ((k - 2 * t) % 2)),
              ISqrt(m * 2^(2 * t + ((k - 2 * t) % 2))),
              (k - 2 * t - ((k - 2 * t) % 2)) \div 2)

\* The square root of a >= 0: p + 1 bits and a sticky bit, then one rounding.
FSqrtP(p, a) ==
    IF a = 0 THEN 0
    ELSE SqrtShift(p, Mantissa(a), Exponent(a) - FracBits,
                   Max(0, (2 * p + 3 - BitLen(Mantissa(a))) \div 2))

FAdd(a, b) == FAddP(Precision, a, b)
FSub(a, b) == FSubP(Precision, a, b)
FMul(a, b) == FMulP(Precision, a, b)
FDiv(a, b) == FDivP(Precision, a, b)

(***************************************************************************)
(* The C library functions the module calls through Python's math and **.  *)
(***************************************************************************)
Work == Precision + 4

Ln2 == FromRatio(Work, 6931472, 10000000)
PiWork == FromRatio(Work, 31415927, 10000000)

\* math.tau, the float nearest to 2 pi.
Tau == FromRatio(Precision, 62831853, 10000000)

One == 2^FracBits

\* The integer nearest to a float (halves go up).
NearestInt(a) == (a + 2^(FracBits - 1)) \div 2^FracBits

\* 1 / k to Work bits.
Recip(k) == FDivP(Work, One, k * One)

\* 1 + z2 (1/3 + z2 (1/5 + z2 (1/7 + z2 / 9))).
LnPoly(z2) ==
    FAddP(Work, One, FMulP(Work, z2,
        FAddP(Work, Recip(3), FMulP(Work, z2,
            FAddP(Work, Recip(5), FMulP(Work, z2,
                FAddP(Work, Recip(7), FMulP(Work, z2, Recip(9)))))))))

\* 2 atanh z = ln((1 + z) / (1 - z)) for 0 <= z < 1/3: the odd series to z^9.
LnSeries(z) == FMulP(Work, 2 * z, LnPoly(FMulP(Work, z, z)))

\* ln(f * 2^E) for 1 <= f < 2.
LnParts(f, E) ==
    FAddP(Work, FMulP(Work, E * One, Ln2),
          LnSeries(FDivP(Work, f - One, f + One)))

\* ln x for a float x of bl bits.
LnBits(x, bl) ==
    LnParts(IF bl - 1 <= FracBits THEN x * 2^(FracBits - (bl - 1))
            ELSE RoundUnits(Work, x, FracBits - (bl - 1)),
            bl - 1 - FracBits)

\* ln x for x > 0, to Work bits: x = f * 2^E with 1 <= f < 2.
LnWork(x) == LnBits(x, BitLen(x))

\* e^r for |r| <= ln(2)/2 and a bit: the series to r^6.
ExpSeries(r) ==
    FAddP(Work, One, FMulP(Work, r,
        FAddP(Work, One, FMulP(Work, FDivP(Work, r, 2 * One),
            FAddP(Work, One, FMulP(Work, FDivP(Work, r, 3 * One),
                FAddP(Work, One, FMulP(Work, FDivP(Work, r, 4 * One),
                    FAddP(Work, One, FMulP(Work, FDivP(Work, r, 5 * One),
                        FAddP(Work, One, FDivP(Work, r, 6 * One))))))))))))

\* e^t for t = k ln 2 + r, rounded to p bits.
ExpReduced(p, t, k) ==
    RoundUnits(p, ExpSeries(FSubP(Work, t, FMulP(Work, k * One, Ln2))), k)

\* e^t rounded to p bits.
ExpRound(p, t) == ExpReduced(p, t, NearestInt(FDivP(Work, t, Ln2)))

\* x ** y for x > 0 (every ** of colorsys.py has a positive base).
FPow(x, y) == ExpRound(Precision, FMulP(Work, y, LnWork(x)))

\* 1 - x2 (1/3 - x2 (1/5 - x2 (1/7 - x2 / 9))).
AtanPoly(x2) ==
    FSubP(Work, One, FMulP(Work, x2,
        FSubP(Work, Recip(3), FMulP(Work, x2,
            FSubP(Work, Recip(5), FMulP(Work, x2,
                FSubP(Work, Recip(7), FMulP(Work, x2, Recip(9)))))))))

\* atan x for |x| <= tan(pi/8) and a bit: the odd series to x^9.
AtanSeries(x) == FMulP(Work, x, AtanPoly(FMulP(Work, x, x)))

\* atan(n / d) for 0 <= n <= d, d > 0, to Work bits: above tan(pi/8) the
\* angle is pi/4 + atan((n - d) / (n + d)).
AtanRatio(n, d) ==
    IF 5 * n <= 2 * d
    THEN AtanSeries(FDivP(Work, n, d))
    ELSE FAddP(Work, FDivP(Work, PiWork, 4 * One),
               AtanSeries(FDivP(Work, FSubP(Work, n, d), FAddP(Work, n, d))))

\* The angle of (|y|, |x|) in the first quadrant, to Work bits.
AtanQuadrant(ay, ax) ==
    IF ay <= ax THEN AtanRatio(ay, ax)
    ELSE FSubP(Work, FDivP(Work, PiWork, 2 * One), AtanRatio(ax, ay))

\* The angle in the upper half plane, given the one in the first quadrant.
AtanHalfPlane(x, q) == IF x >= 0 THEN q ELSE FSubP(Work, PiWork, q)

\* math.atan2(y, x): the angle of the point (x, y), in -pi..pi.
atan2(y, x) ==
    IF x = 0 /\ y = 0 THEN 0
    ELSE Sign(y) * RoundUnits(Precision,
                              AtanHalfPlane(x, AtanQuadrant(Abs(y), Abs(x))),
                              0)

\* mx * sqrt(s) for the sum s of the squared ratios to mx.
HypotScale(mx, s) == FMulP(Precision, mx, FSqrtP(Work, s))

\* mx * sqrt(1 + r^2).
HypotRatio(mx, r) == HypotScale(mx, FAddP(Work, One, FMulP(Work, r, r)))

\* math.hypot(a, b): scaled by the larger argument, so that the squares
\* neither overflow nor underflow.
hypot(a, b) ==
    IF a = 0 /\ b = 0 THEN 0
    ELSE HypotRatio(Max(Abs(a), Abs(b)),
                    FDivP(Work, Min(Abs(a), Abs(b)), Max(Abs(a), Abs(b))))

\* mx * sqrt(ra^2 + rb^2 + rc^2).
HypotRatios(mx, ra, rb, rc) ==
    HypotScale(mx, FAddP(Work, FAddP(Work, FMulP(Work, ra, ra),
                                     FMulP(Work, rb, rb)),
                         FMulP(Work, rc, rc)))

\* |a|, |b|, |c| scaled by their maximum mx.
HypotScaled(a, b, c, mx) ==
    HypotRatios(mx, FDivP(Work, a, mx), FDivP(Work, b, mx),
                FDivP(Work, c, mx))

\* math.hypot(a, b, c), scaled by the largest argument.
hypot3(a, b, c) ==
    IF a = 0 /\ b = 0 /\ c = 0 THEN 0
    ELSE HypotScaled(Abs(a), Abs(b), Abs(c),
                     Max(Abs(a), Max(Abs(b), Abs(c))))

(***************************************************************************)
(* melanin/colorsys.py.                                                    *)
(***************************************************************************)
\* Lines 77-88: the gamma-encoded channel made linear.
Linearize(c) ==
    IF c > Lit(4045, 100000)
    THEN FPow(FDiv(FAdd(c, Lit(55, 1000)), Lit(1055, 1000)), Lit(24, 10))
    ELSE FDiv(c, Lit(1292, 100))

\* Lines 89-93: the matrix applied to the linear channels.
LinearToXyz(r, g, b) ==
    Returned(
        <<FAdd(FAdd(FMul(Lit(4124, 10000), r), FMul(Lit(3576, 10000), g)),
               FMul(Lit(1805, 10000), b)),
          FAdd(FAdd(FMul(Lit(2126, 10000), r), FMul(Lit(7152, 10000), g)),
               FMul(Lit(722, 10000), b)),
          FAdd(FAdd(FMul(Lit(193, 10000), r), FMul(Lit(1192, 10000), g)),
               FMul(Lit(9505, 10000), b))>>)

\* rgb_to_xyz, lines 75-93.
rgb_to_xyz(r, g, b) == LinearToXyz(Linearize(r), Linearize(g), Linearize(b))

\* Lines 104-115: the linear channel gamma-encoded.
Delinearize(c) ==
    IF c > Lit(31308, 10000000)
    THEN FSub(FMul(Lit(1055, 1000), FPow(c, FDiv(One, Lit(24, 10)))),
              Lit(55, 1000))
    ELSE FMul(Lit(1292, 100), c)

\* xyz_to_rgb, lines 96-117: the three channels are returned as computed.
xyz_to_rgb(x, y, z) ==
    Returned(
        <<Delinearize(FSub(FSub(FMul(Lit(32406254, 10000000), x),
                                FMul(Lit(1537208, 1000000), y)),
                           FMul(Lit(4986286, 10000000), z))),
          Delinearize(FAdd(FAdd(FMul(0 - Lit(9689307, 10000000), x),
                                FMul(Lit(18757561, 10000000), y)),
                           FMul(Lit(415175, 10000000), z))),
          Delinearize(FAdd(FSub(FMul(Lit(557101, 10000000), x),
                                FMul(Lit(2040211, 10000000), y)),
                           FMul(Lit(10569959, 10000000), z)))>>)

\* Lines 190-191: the two quotients by the denominator d.
UvOver(x, y, d) ==
    IF d = 0 THEN Raised("ZeroDivisionError")
    ELSE Returned(<<FDiv(FMul(4 * One, x), d), FDiv(FMul(9 * One, y), d)>>)

\* _xyz_to_uv, lines 186-191.
xyz_to_uv(x, y, z) ==
    IF x = 0 /\ y = 0 THEN Returned(<<0, 0>>)
    ELSE UvOver(x, y, FAdd(FAdd(x, FMul(15 * One, y)), FMul(3 * One, z)))

\* Lines 200-201.
EPSILON == FPow(FDiv(6 * One, 29 * One), 3 * One)
KAPPA == FPow(FDiv(29 * One, 3 * One), 3 * One)

\* Lines 204-205.
REF_XYZ_D65_2 == <<Lit(95047, 100000), One, Lit(108883, 100000)>>
REF_UV_D65_2 ==
    xyz_to_uv(REF_XYZ_D65_2[1], REF_XYZ_D65_2[2], REF_XYZ_D65_2[3]).value

\* Lines 196-197: the two quotients by the denominator d.
LuvOver(u, v, d) ==
    IF d = 0 THEN Raised("ZeroDivisionError")
    ELSE Returned(<<FAdd(FDiv(u, d), REF_UV_D65_2[1]),
                    FAdd(FDiv(v, d), REF_UV_D65_2[2])>>)

\* _luv_to_uv, lines 194-197.
luv_to_uv(ell, u, v) == LuvOver(u, v, FMul(13 * One, ell))

\* Lines 144-147: the lightness of the luminance y.
Lightness(y) ==
    IF y > EPSILON
    THEN FSub(FMul(116 * One, FPow(y, FDiv(One, 3 * One))), 16 * One)
    ELSE FMul(KAPPA, y)

\* Lines 148-150: u and v from the lightness, and the three scaled by 100.
LuvOfLightness(ell, uv) ==
    Returned(
        <<FDiv(ell, 100 * One),
          FDiv(FMul(FMul(13 * One, ell), FSub(uv[1], REF_UV_D65_2[1])),
               100 * One),
          FDiv(FMul(FMul(13 * One, ell), FSub(uv[2], REF_UV_D65_2[2])),
               100 * One)>>)

\* Lines 142-150, given the result of _xyz_to_uv.
XyzUvToLuv(y, uv) ==
    IF uv.kind = "raise" THEN uv
    ELSE LuvOfLightness(Lightness(y), uv.value)

\* xyz_to_luv, lines 140-150.
xyz_to_luv(x, y, z) == XyzUvToLuv(y, xyz_to_uv(x, y, z))

\* Lines 162-165: the luminance of the lightness ell.
Luminance(ell) ==
    IF ell > 8 * One
    THEN FPow(FDiv(FAdd(ell, 16 * One), 116 * One), 3 * One)
    ELSE FDiv(ell, KAPPA)

\* Lines 166-168: x and z from the luminance y and four_v = 4 v.
XyzOfLuminance(y, u, v, four_v) ==
    IF four_v = 0 THEN Raised("ZeroDivisionError")
    ELSE Returned(
        <<FDiv(FMul(FMul(9 * One, y), u), four_v),
          y,
          FDiv(FMul(y, FSub(FSub(12 * One, FMul(3 * One, u)),
                            FMul(20 * One, v))),
               four_v)>>)

\* Lines 160-168, given the result of _luv_to_uv.
LuvUvToXyz(ell, uv) ==
    IF uv.kind = "raise" THEN uv
    ELSE XyzOfLuminance(Luminance(ell), uv.value[1], uv.value[2],
                        FMul(4 * One, uv.value[2]))

\* Lines 158-168, on the three coordinates scaled by 100.
ScaledLuvToXyz(ell, u, v) == LuvUvToXyz(ell, luv_to_uv(ell, u, v))

\* luv_to_xyz without the test of ell == 0.
luv_to_xyz_unguarded(ell, u, v) ==
    ScaledLuvToXyz(FMul(100 * One, ell), FMul(100 * One, u),
                   FMul(100 * One, v))

\* luv_to_xyz, lines 153-168.
luv_to_xyz(ell, u, v) ==
    IF ell = 0 THEN Returned(<<0, 0, 0>>)
    ELSE ScaledLuvToXyz(FMul(100 * One, ell), FMul(100 * One, u),
                        FMul(100 * One, v))

\* Line 175: a negative angle is moved up by a turn.
Turn(h) == IF h < 0 THEN FAdd(h, Tau) ELSE h

\* luv_to_lch, lines 171-176.
luv_to_lch(ell, u, v) == Returned(<<ell, hypot(v, u), Turn(atan2(v, u))>>)

\* xyz_to_rgb(*t), for the result t of the inner call: the call is made
\* unless the inner one raised.
xyz_to_rgb_star(t) ==
    IF t.kind = "raise" THEN t
    ELSE xyz_to_rgb(t.value[1], t.value[2], t.value[3])

\* xyz_to_luv(*t).
xyz_to_luv_star(t) ==
    IF t.kind = "raise" THEN t
    ELSE xyz_to_luv(t.value[1], t.value[2], t.value[3])

\* luv_to_lch(*t).
luv_to_lch_star(t) ==
    IF t.kind = "raise" THEN t
    ELSE luv_to_lch(t.value[1], t.value[2], t.value[3])

\* luv_to_rgb, lines 120-122, and rgb_to_luv, lines 125-127.
luv_to_rgb(ell, u, v) == xyz_to_rgb_star(luv_to_xyz(ell, u, v))
rgb_to_luv(r, g, b) == xyz_to_luv_star(rgb_to_xyz(r, g, b))

\* rgb_to_lch, lines 135-137.
rgb_to_lch(r, g, b) == luv_to_lch_star(rgb_to_luv(r, g, b))

\* 1 - r2/2 (1 - r2/12 (1 - r2/30 (1 - r2/56))): the cosine series to r^8,
\* given r2 = r^2.
CosSeries(r2) ==
    FSubP(Work, One, FMulP(Work, FDivP(Work, r2, 2 * One),
        FSubP(Work, One, FMulP(Work, FDivP(Work, r2, 12 * One),
            FSubP(Work, One, FMulP(Work, FDivP(Work, r2, 30 * One),
                FSubP(Work, One, FDivP(Work, r2, 56 * One))))))))

\* r (1 - r2/6 (1 - r2/20 (1 - r2/42 (1 - r2/72)))): the sine series to r^9.
SinSeries(r, r2) ==
    FMulP(Work, r,
        FSubP(Work, One, FMulP(Work, FDivP(Work, r2, 6 * One),
            FSubP(Work, One, FMulP(Work, FDivP(Work, r2, 20 * One),
                FSubP(Work, One, FMulP(Work, FDivP(Work, r2, 42 * One),
                    FSubP(Work, One, FDivP(Work, r2, 72 * One)))))))))

\* The number of quarter turns nearest to the angle h.
QuarterTurns(h) == NearestInt(FDivP(Work, 2 * h, PiWork))

\* What is left of the angle h after k quarter turns, at most pi/4 and a
\* bit in size.
AfterTurns(h, k) ==
    FSubP(Work, h, FDivP(Work, FMulP(Work, k * One, PiWork), 2 * One))

\* sin(k pi/2 + r) to Work bits.
SinReduced(k, r) ==
    CASE k % 4 = 0 -> SinSeries(r, FMulP(Work, r, r))
      [] k % 4 = 1 -> CosSeries(FMulP(Work, r, r))
      [] k % 4 = 2 -> 0 - SinSeries(r, FMulP(Work, r, r))
      [] k % 4 = 3 -> 0 - CosSeries(FMulP(Work, r, r))

\* math.sin, and math.cos as the sine one quarter turn on, rounded to
\* Precision bits.
sin(h) ==
    FAddP(Precision,
          SinReduced(QuarterTurns(h), AfterTurns(h, QuarterTurns(h))), 0)
cos(h) ==
    FAddP(Precision,
          SinReduced(QuarterTurns(h) + 1, AfterTurns(h, QuarterTurns(h))), 0)

\* lch_to_luv, lines 179-183.
lch_to_luv(ell, c, h) ==
    Returned(<<ell, FMul(c, cos(h)), FMul(c, sin(h))>>)

\* luv_to_rgb(*t).
luv_to_rgb_star(t) ==
    IF t.kind = "raise" THEN t
    ELSE luv_to_rgb(t.value[1], t.value[2], t.value[3])

\* lch_to_rgb, lines 130-132.
lch_to_rgb(ell, c, h) == luv_to_rgb_star(lch_to_luv(ell, c, h))

(***************************************************************************)
(* Bounds of the closest-colour search.                                    *)
(***************************************************************************)
MaxCandidates == 3

\* Channel values the search is run on, in 255ths.
SearchChannels == {0, 100, 200}

\* Candidate colours: finite RGB values.
CandidatePool == {<<r, g, 0>> : r \in SearchChannels, g \in {0, 100}}

\* Query colours: the same, and one whose red channel is float("inf") (for
\* the search in RGB space; the HCL coordinates of the other search are
\* taken of finite colours only).
QueryPool == CandidatePool \cup {<<inf, 0, 0>>}

CandidateSeqs == UNION {[1..n -> CandidatePool] : n \in 0..MaxCandidates}

(***************************************************************************)
(* melanin/spaces.py _closest_color_rgb, one action per loop iteration.    *)
(***************************************************************************)
\* A test that also replaces the best candidate by one at the same distance.
CloserOrEqual(distance, minimal) == distance <= minimal

\* The loop's test, line 323.
Closer(distance, minimal) == distance < minimal

\* Lines 318-319: the two locals are set and the loop is entered.
ClosestEnter ==
    /\ pc = "call"
    /\ impl = "melanin"
    /\ minimal_color' = None
    /\ minimal_distance' = inf
    /\ idx' = 1
    /\ pc' = "loop"
    /\ UNCHANGED <<impl, arg, self, color, colors, result>>

\* Lines 321-325: one iteration on the next candidate.
ClosestLoop ==
    /\ pc = "loop"
    /\ idx <= Len(colors)
    /\ LET distance == dist_rgb(color, colors[idx])
       IN  IF Closer(distance, minimal_distance)
           THEN /\ minimal_color' = idx
                /\ minimal_distance' = distance
           ELSE UNCHANGED <<minimal_color, minimal_distance>>
    /\ idx' = idx + 1
    /\ UNCHANGED <<pc, impl, arg, self, color, colors, result>>

\* Lines 327-328: the iterator is exhausted; the assertion, then the return.
ClosestReturn ==
    /\ pc = "loop"
    /\ idx > Len(colors)
    /\ result' = IF minimal_color = None THEN Raised("AssertionError")
                                         ELSE Returned(minimal_color)
    /\ pc' = "done"
    /\ UNCHANGED <<impl, arg, self, color, colors, idx, minimal_color, minimal_distance>>

(***************************************************************************)
(* ochre/spaces.py Color.closest: min(colors, key=self.distance).          *)
(***************************************************************************)
RECURSIVE MinIndexFrom(_, _, _)
\* Python's min over a sequence of keys: the running best is replaced only
\* by a strictly smaller key, so the first of several equal minima stays.
MinIndexFrom(keys, best, i) ==
    IF i > Len(keys) THEN best
    ELSE MinIndexFrom(keys, IF keys[i] < keys[best] THEN i ELSE best, i + 1)

\* min(seq, key=...) given the keys: ValueError on an empty sequence.
PyMin(keys) ==
    IF Len(keys) = 0 THEN Raised("ValueError")
    ELSE Returned(MinIndexFrom(keys, 1, 2))

\* The fields of an HCL from the result of rgb_to_lch.
HCL(lch) ==
    [hue |-> lch.value[3], chroma |-> lch.value[2],
     luminance |-> lch.value[1]]

\* RGB.hcl, lines 121-124: the channels of an RGB of the search, which are
\* 255ths, as floats, and their HCL coordinates.  colorsys.rgb_to_hcl is not
\* among the sources: it is rgb_to_lch with the result in the order hue,
\* chroma, luminance (specification, section 4.4).
RGB_hcl(this) ==
    HCL(rgb_to_lch(FDiv(FromInt(this[1]), FromInt(255)),
                   FDiv(FromInt(this[2]), FromInt(255)),
                   FDiv(FromInt(this[3]), FromInt(255))))

\* Lines 73-77: the distance of two HCL values.
HclDistance(self_hcl, other_hcl) ==
    hypot3(FSub(self_hcl.hue, other_hcl.hue),
           FSub(self_hcl.chroma, other_hcl.chroma),
           FSub(self_hcl.luminance, other_hcl.luminance))

\* Color.distance, lines 69-77: the key of the search.
distance(this, other) == HclDistance(RGB_hcl(this), RGB_hcl(other))

\* The distances between the colours of the search, computed once.
DistanceMemo ==
    [a \in CandidatePool |-> [b \in CandidatePool |-> distance(a, b)]]

\* Color.closest, lines 79-81.
closest(this, cands) ==
    PyMin([i \in 1..Len(cands) |-> DistanceMemo[this][cands[i]]])

Closest ==
    /\ pc = "call"
    /\ impl = "ochre"
    /\ result' = closest(color, colors)
    /\ pc' = "done"
    /\ UNCHANGED <<impl, arg, self, color, colors, idx, minimal_color, minimal_distance>>

InitClosest ==
    /\ pc = "call"
    /\ \/ impl = "melanin" /\ color \in QueryPool
       \/ impl = "ochre" /\ color \in CandidatePool
    /\ arg = NoArg
    /\ self = NoObject
    /\ colors \in CandidateSeqs
    /\ idx = 1
    /\ minimal_color = None
    /\ minimal_distance = inf
    /\ result = NoResult

NextClosest == ClosestEnter \/ ClosestLoop \/ ClosestReturn \/ Closest

SpecClosest == InitClosest /\ [][NextClosest]_vars

(***************************************************************************)
(* Claims on the closest-colour search.                                    *)
(***************************************************************************)
\* The distance the running implementation measures from the query to the
\* i-th candidate.
CandidateDistance(i) ==
    IF impl = "melanin" THEN dist_rgb(color, colors[i])
                        ELSE DistanceMemo[color][colors[i]]

SearchReturned == pc = "done" /\ result.kind = "return"

\* C1: whenever the search returns, it returns a candidate whose distance
\* to the query is at most that of every candidate, and no candidate before
\* it in iteration order is at that distance: the first minimum wins.
C1_FirstMinimum ==
    SearchReturned =>
        /\ result.value \in 1..Len(colors)
        /\ \A j \in 1..Len(colors) :
              CandidateDistance(result.value) <= CandidateDistance(j)
        /\ \A j \in 1..(result.value - 1) :
              CandidateDistance(j) # CandidateDistance(result.value)

\* The loop returned the first of two different candidates at the same,
\* minimal, distance.
C1_Witness ==
    /\ SearchReturned
    /\ impl = "melanin"
    /\ \E j \in (result.value + 1)..Len(colors) :
          /\ colors[j] # colors[result.value]
          /\ CandidateDistance(j) = CandidateDistance(result.value)
    /\ \E j \in 1..Len(colors) :
          CandidateDistance(j) > CandidateDistance(result.value)

\* C2: the search fails exactly when the candidate sequence is empty; on a
\* non-empty sequence it returns one of its elements, whatever the distances.
C2_FailsOnlyWhenEmpty ==
    pc = "done" =>
        /\ Len(colors) = 0 => result.kind = "raise"
        /\ Len(colors) > 0 =>
              result.kind = "return" /\ result.value \in 1..Len(colors)

(***************************************************************************)
(* Hex, WebColor and Ansi256 (melanin/spaces.py), WebColor (ochre).        *)
(*                                                                         *)
(* A text is a sequence of one-character strings.  The argument of Hex is  *)
(* tagged with its Python type: [text |-> s] or [int |-> n].               *)
(***************************************************************************)
Text(s) == [text |-> s]
IntArg(n) == [int |-> n]

HexDigits ==
    [c \in {"0", "1", "2", "3", "4", "5", "6", "7", "8", "9",
            "a", "b", "c", "d", "e", "f", "A", "B", "C", "D", "E", "F"} |->
        CASE c = "0" -> 0 [] c = "1" -> 1 [] c = "2" -> 2 [] c = "3" -> 3
          [] c = "4" -> 4 [] c = "5" -> 5 [] c = "6" -> 6 [] c = "7" -> 7
          [] c = "8" -> 8 [] c = "9" -> 9
          [] c \in {"a", "A"} -> 10 [] c \in {"b", "B"} -> 11
          [] c \in {"c", "C"} -> 12 [] c \in {"d", "D"} -> 13
          [] c \in {"e", "E"} -> 14 [] c \in {"f", "F"} -> 15]

RECURSIVE lstrip(_, _)
\* str.lstrip(chars) with a single character: every leading one is removed.
lstrip(s, ch) ==
    IF Len(s) > 0 /\ s[1] = ch THEN lstrip(Tail(s), ch) ELSE s

RECURSIVE DigitsValue(_, _)
\* The value of a sequence of hexadecimal digits, most significant first,
\* continuing from acc.
DigitsValue(s, acc) ==
    IF Len(s) = 0 THEN acc
    ELSE DigitsValue(Tail(s), 16 * acc + HexDigits[s[1]])

\* int(s, 16): an optional 0x or 0X prefix, then at least one hexadecimal
\* digit and nothing else; ValueError otherwise.
int16(s) ==
    LET body == IF Len(s) >= 2 /\ s[1] = "0" /\ s[2] \in {"x", "X"}
                THEN SubSeq(s, 3, Len(s)) ELSE s
    IN  IF Len(body) > 0 /\ \A i \in 1..Len(body) : body[i] \in DOMAIN HexDigits
        THEN Returned(DigitsValue(body, 0))
        ELSE Raised("ValueError")

\* Hex.__init__, lines 64-68: a text is parsed, an integer is kept.
Hex_init(value) ==
    IF "text" \in DOMAIN value
    THEN LET parsed == int16(lstrip(value.text, "#"))
         IN  IF parsed.kind = "raise" THEN parsed
             ELSE Returned([cls |-> "Hex", integer |-> parsed.value])
    ELSE Returned([cls |-> "Hex", integer |-> value.int])

\* Hex.rgb without the mask of the green byte.
Hex_rgb_unmasked(this) ==
    Returned(<<(this.integer \div 65536) % 256, this.integer \div 256,
               this.integer % 256>>)

\* Hex.rgb, lines 85-91: the three bytes of the integer, each over 255.
Hex_rgb(this) ==
    LET r == (this.integer \div 65536) % 256
        g == (this.integer \div 256) % 256
        b == this.integer % 256
    IN  Returned(<<r, g, b>>)

\* The named-colour table web.colors, which is not among the sources: the
\* sixteen basic HTML names of the specification (section 6) and their
\* standard values, with both spellings of grey.
web_colors ==
    [n \in {"black", "maroon", "green", "olive", "navy", "purple", "teal",
            "silver", "grey", "gray", "red", "lime", "yellow", "blue",
            "fuchsia", "aqua", "white"} |->
        CASE n = "black" -> 0
          [] n = "maroon" -> 8388608
          [] n = "green" -> 32768
          [] n = "olive" -> 8421376
          [] n = "navy" -> 128
          [] n = "purple" -> 8388736
          [] n = "teal" -> 32896
          [] n = "silver" -> 12632256
          [] n \in {"grey", "gray"} -> 8421504
          [] n = "red" -> 16711680
          [] n = "lime" -> 65280
          [] n = "yellow" -> 16776960
          [] n = "blue" -> 255
          [] n = "fuchsia" -> 16711935
          [] n = "aqua" -> 65535
          [] n = "white" -> 16777215]

\* melanin WebColor.__init__, lines 108-110: the name is stored as given.
WebColor_init(name) == Returned([cls |-> "WebColor", name |-> name])

\* ochre WebColor.__init__, lines 158-162: an unknown name is refused.
ochre_WebColor_init(name) ==
    IF name \notin DOMAIN web_colors THEN Raised("ValueError")
    ELSE Returned([cls |-> "WebColor", name |-> name])

\* melanin WebColor.hex, lines 112-115: the table is read here; a name that
\* is not a key raises KeyError.
WebColor_hex(this) ==
    IF this.name \notin DOMAIN web_colors THEN Raised("KeyError")
    ELSE Hex_init(IntArg(web_colors[this.name]))

\* melanin WebColor.rgb, lines 127-130: self.hex.rgb.
WebColor_rgb(this) ==
    LET h == WebColor_hex(this)
    IN  IF h.kind = "raise" THEN h ELSE Hex_rgb(h.value)

\* The RGB projection of a colour object of a palette class.
rgb_of(this) ==
    IF this.cls = "WebColor" THEN WebColor_rgb(this) ELSE Hex_rgb(this)

\* Ansi256.ANSI8, lines 147-164.
ANSI8 ==
    << WebColor_init("black").value,
       WebColor_init("maroon").value,
       WebColor_init("green").value,
       Hex_init(Text(<<"#", "8", "0", "8", "0", "0", "0">>)).value,
       Hex_init(Text(<<"#", "0", "0", "0", "0", "8", "0">>)).value,
       Hex_init(Text(<<"#", "8", "0", "0", "0", "8", "0">>)).value,
       Hex_init(Text(<<"#", "0", "0", "8", "0", "8", "0">>)).value,
       WebColor_init("silver").value,
       WebColor_init("grey").value,
       WebColor_init("red").value,
       Hex_init(Text(<<"#", "0", "0", "f", "f", "0", "0">>)).value,
       Hex_init(Text(<<"#", "f", "f", "f", "f", "0", "0">>)).value,
       Hex_init(Text(<<"#", "0", "0", "0", "0", "f", "f">>)).value,
       WebColor_init("fuchsia").value,
       Hex_init(Text(<<"#", "0", "0", "f", "f", "f", "f">>)).value,
       WebColor_init("white").value >>

\* An index that counts from one.
PyIndexFromOne(list, i) ==
    IF 1 <= i /\ i <= Len(list) THEN Returned(list[i])
    ELSE Raised("IndexError")

\* list[i] in Python, for a 1-based TLA+ sequence: a negative index counts
\* from the end, an index outside -len..len-1 raises IndexError.
PyIndex(list, i) ==
    IF 0 <= i /\ i < Len(list) THEN Returned(list[i + 1])
    ELSE IF -Len(list) <= i /\ i < 0 THEN Returned(list[Len(list) + i + 1])
    ELSE Raised("IndexError")

\* A cube channel that is not zeroed at index 0.
CubeChannelNoZero(i) == 55 + i * 40

\* Lines 195-197: a cube channel, in 255ths.
CubeChannel(i) == IF i > 0 THEN 55 + i * 40 ELSE 0

\* A grey ramp that starts at 0 instead of 8.
GrayValueFromZero(code) == (code - 232) * 10

\* Line 201: the value of a grey of the ramp, in 255ths.
GrayValue(code) == (code - 232) * 10 + 8

\* Ansi256.__init__, lines 166-168: the code is stored as given.
Ansi256_init(code) == Returned([cls |-> "Ansi256", code |-> code])

\* Ansi256.rgb, lines 185-203.  Python's // and % round towards minus
\* infinity, as \div and % do.
Ansi256_rgb(this) ==
    IF this.code < 16
    THEN LET entry == PyIndex(ANSI8, this.code)
         IN  IF entry.kind = "raise" THEN entry ELSE rgb_of(entry.value)
    ELSE IF this.code < 232
    THEN LET red_i == (this.code - 16) \div 36
             green_i == ((this.code - 16) % 36) \div 6
             blue_i == (this.code - 16) % 6
         IN  Returned(<<CubeChannel(red_i), CubeChannel(green_i),
                        CubeChannel(blue_i)>>)
    ELSE IF this.code < 256
    THEN LET value == GrayValue(this.code)
         IN  Returned(<<value, value, value>>)
    ELSE Raised("ValueError")

(***************************************************************************)
(* The palette machine: a value is constructed from arg, then projected to *)
(* RGB.                                                                    *)
(***************************************************************************)
\* How far outside 0..255 the codes of the model reach.
CodeMargin == 20

AnsiCodes == (0 - CodeMargin)..(255 + CodeMargin)

\* Names given to WebColor: the keys of the table and some that are not.
WebNames == DOMAIN web_colors \cup {"foo", "Red", "dark red", ""}

SearchIdle ==
    /\ color = <<0, 0, 0>>
    /\ colors = <<>>
    /\ idx = 1
    /\ minimal_color = None
    /\ minimal_distance = inf

SearchUnchanged ==
    UNCHANGED <<color, colors, idx, minimal_color, minimal_distance>>

\* The constructor returned an object or raised.
Construct(outcome) ==
    /\ IF outcome.kind = "raise"
       THEN /\ result' = outcome
            /\ pc' = "done"
            /\ UNCHANGED self
       ELSE /\ self' = outcome.value
            /\ pc' = "built"
            /\ UNCHANGED result
    /\ UNCHANGED <<impl, arg>>
    /\ SearchUnchanged

\* A property of the constructed object was read.
Project(outcome) ==
    /\ result' = outcome
    /\ pc' = "done"
    /\ UNCHANGED <<impl, arg, self>>
    /\ SearchUnchanged

Ansi256Init ==
    /\ pc = "new"
    /\ arg.cls = "Ansi256"
    /\ Construct(Ansi256_init(arg.code))

Ansi256Rgb ==
    /\ pc = "built"
    /\ self.cls = "Ansi256"
    /\ Project(Ansi256_rgb(self))

WebColorInit ==
    /\ pc = "new"
    /\ arg.cls = "WebColor"
    /\ impl = "melanin"
    /\ Construct(WebColor_init(arg.name))

OchreWebColorInit ==
    /\ pc = "new"
    /\ arg.cls = "WebColor"
    /\ impl = "ochre"
    /\ Construct(ochre_WebColor_init(arg.name))

WebColorRgb ==
    /\ pc = "built"
    /\ self.cls = "WebColor"
    /\ impl = "melanin"
    /\ Project(WebColor_rgb(self))

InitPalette ==
    /\ pc = "new"
    /\ \/ /\ impl = "melanin"
          /\ arg \in {[cls |-> "Ansi256", code |-> c] : c \in AnsiCodes}
       \/ /\ impl \in {"melanin", "ochre"}
          /\ arg \in {[cls |-> "WebColor", name |-> n] : n \in WebNames}
    /\ self = NoObject
    /\ result = NoResult
    /\ SearchIdle

NextPalette ==
    \/ Ansi256Init
    \/ Ansi256Rgb
    \/ WebColorInit
    \/ OchreWebColorInit
    \/ WebColorRgb

SpecPalette == InitPalette /\ [][NextPalette]_vars

(***************************************************************************)
(* Claims on Ansi256 and WebColor.                                         *)
(***************************************************************************)
\* An Ansi256 value was projected to RGB (the projection returned or raised).
AnsiProjected == pc = "done" /\ self.cls = "Ansi256"

\* The channel the cube formula gives for an index, in 255ths.
FormulaChannel(index) == IF index = 0 THEN 0 ELSE 55 + 40 * index

\* C3: for every code c in 16..231, Ansi256(c) decodes to the RGB whose
\* channel indices are (c-16)//36, ((c-16)%36)//6 and (c-16)%6, a channel
\* being 0 at index 0 and (55 + 40*index)/255 otherwise.
C3_CubeFormula ==
    (AnsiProjected /\ self.code \in 16..231) =>
        result = Returned(<<FormulaChannel((self.code - 16) \div 36),
                            FormulaChannel(((self.code - 16) % 36) \div 6),
                            FormulaChannel((self.code - 16) % 6)>>)

\* Code 50 was decoded to 0x00FFD7: a zero index and two non-zero ones.
C3_Witness ==
    /\ AnsiProjected
    /\ self.code = 50
    /\ result = Returned(<<0, 255, 215>>)

\* C4: for every code c in 232..255, Ansi256(c) decodes to three equal
\* channels ((c-232)*10+8)/255.
C4_GrayscaleFormula ==
    (AnsiProjected /\ self.code \in 232..255) =>
        \E v \in 0..255 :
            /\ v = (self.code - 232) * 10 + 8
            /\ result = Returned(<<v, v, v>>)

\* Code 255, the last of the ramp, was decoded to 238/255 on each channel.
C4_Witness ==
    /\ AnsiProjected
    /\ self.code = 255
    /\ result = Returned(<<238, 238, 238>>)

\* The sixteen base colours in index order, as bytes: black, maroon, green,
\* olive, navy, purple, teal, silver, grey, red, lime, yellow, blue, fuchsia,
\* aqua, white.
BasePalette ==
    << <<0, 0, 0>>, <<128, 0, 0>>, <<0, 128, 0>>, <<128, 128, 0>>,
       <<0, 0, 128>>, <<128, 0, 128>>, <<0, 128, 128>>, <<192, 192, 192>>,
       <<128, 128, 128>>, <<255, 0, 0>>, <<0, 255, 0>>, <<255, 255, 0>>,
       <<0, 0, 255>>, <<255, 0, 255>>, <<0, 255, 255>>, <<255, 255, 255>> >>

\* C5: for every code i in 0..15, Ansi256(i) decodes to the i-th colour of
\* the base palette, with its standard RGB value.
C5_BasePalette ==
    (AnsiProjected /\ self.code \in 0..15) =>
        result = Returned(BasePalette[self.code + 1])

\* Code 7 was decoded to silver, 0xC0C0C0.
C5_Witness ==
    /\ AnsiProjected
    /\ self.code = 7
    /\ result = Returned(<<192, 192, 192>>)

\* C6: for every code outside 0..255, negative or above 255, the
\* construction succeeds and the projection to RGB fails: no such code
\* decodes to a colour.
C6_InvalidCodeFails ==
    (arg.cls = "Ansi256" /\ arg.code \notin 0..255) =>
        /\ pc = "built" => self = [cls |-> "Ansi256", code |-> arg.code]
        /\ pc = "done" => self.cls = "Ansi256" /\ result.kind = "raise"

\* C7: constructing a WebColor with a name that is not a key of the table
\* fails at construction with a value error: no WebColor holding such a name
\* exists.
C7_InvalidNameFailsAtConstruction ==
    (arg.cls = "WebColor" /\ arg.name \notin DOMAIN web_colors) =>
        /\ self = NoObject
        /\ pc # "new" => pc = "done" /\ result = Raised("ValueError")

(***************************************************************************)
(* The colorsys machine: one function of melanin/colorsys.py is called on  *)
(* three floats.                                                           *)
(***************************************************************************)
\* XYZ coordinates are taken at k / XyzSteps, k in 0..XyzSteps.
XyzSteps == 4

\* LUV coordinates are taken at k / LuvSteps, k in -LuvSteps..LuvSteps, and
\* at the two floats next to zero.
LuvSteps == 2

XyzGrid == {FromRatio(Precision, k, XyzSteps) : k \in 0..XyzSteps}

LuvGrid ==
    {FromRatio(Precision, k, LuvSteps) : k \in 0..LuvSteps}
    \cup {0 - FromRatio(Precision, k, LuvSteps) : k \in 0..LuvSteps}
    \cup {1, 0 - 1}

LightnessGrid == {FromRatio(Precision, k, LuvSteps) : k \in 0..LuvSteps}

\* Hues at whole radians, 0 to 6.
HueGrid == {FromInt(k) : k \in 0..6}

ColorsysCalls ==
    {[fn |-> fn, args |-> <<x, y, z>>] :
        fn \in {"xyz_to_rgb", "rgb_to_lch"},
        x \in XyzGrid, y \in XyzGrid, z \in XyzGrid}
    \cup {[fn |-> "lch_to_rgb", args |-> <<ell, c, h>>] :
        ell \in LightnessGrid, c \in LightnessGrid, h \in HueGrid}
    \cup {[fn |-> fn, args |-> <<ell, u, v>>] :
        fn \in {"luv_to_lch", "luv_to_rgb"},
        ell \in LightnessGrid, u \in LuvGrid, v \in LuvGrid}

Return(outcome) ==
    /\ result' = outcome
    /\ pc' = "done"
    /\ UNCHANGED <<impl, arg, self>>
    /\ SearchUnchanged

XyzToRgb ==
    /\ pc = "call"
    /\ arg.fn = "xyz_to_rgb"
    /\ Return(xyz_to_rgb(arg.args[1], arg.args[2], arg.args[3]))

LuvToLch ==
    /\ pc = "call"
    /\ arg.fn = "luv_to_lch"
    /\ Return(luv_to_lch(arg.args[1], arg.args[2], arg.args[3]))

LuvToRgb ==
    /\ pc = "call"
    /\ arg.fn = "luv_to_rgb"
    /\ Return(luv_to_rgb(arg.args[1], arg.args[2], arg.args[3]))

RgbToLch ==
    /\ pc = "call"
    /\ arg.fn = "rgb_to_lch"
    /\ Return(rgb_to_lch(arg.args[1], arg.args[2], arg.args[3]))

LchToRgb ==
    /\ pc = "call"
    /\ arg.fn = "lch_to_rgb"
    /\ Return(lch_to_rgb(arg.args[1], arg.args[2], arg.args[3]))

InitColorsys ==
    /\ pc = "call"
    /\ impl = "melanin"
    /\ arg \in ColorsysCalls
    /\ self = NoObject
    /\ result = NoResult
    /\ SearchIdle

NextColorsys == XyzToRgb \/ LuvToLch \/ LuvToRgb \/ RgbToLch \/ LchToRgb

SpecColorsys == InitColorsys /\ [][NextColorsys]_vars

(***************************************************************************)
(* Claims on colorsys.                                                     *)
(***************************************************************************)
Called(fn) == pc = "done" /\ arg.fn = fn

\* C9: for every XYZ or LUV input, in gamut or not, each of the three
\* channels that xyz_to_rgb or luv_to_rgb returns lies in [0, 1].
C9_XyzToRgbClamps ==
    (Called("xyz_to_rgb") \/ Called("luv_to_rgb")) =>
        /\ result.kind = "return"
        /\ \A i \in 1..3 : 0 <= result.value[i] /\ result.value[i] <= One

\* C10: for every LUV input, luv_to_lch returns a hue h with 0 <= h < 2 pi,
\* which is atan2(v, u) shifted by 2 pi when that is negative, and the
\* lightness unchanged.
C10_HueInRange ==
    Called("luv_to_lch") =>
        LET raw == atan2(arg.args[3], arg.args[2])
            h == result.value[3]
        IN  /\ result.kind = "return"
            /\ 0 <= h /\ h < Tau
            /\ raw < 0 => h = FAdd(raw, Tau)
            /\ result.value[1] = arg.args[1]

(***************************************************************************)
(* RGB, Hex and the equality of colours (melanin/spaces.py), the tuple     *)
(* Color (melanin/_color.py), ColorPair (ochre/color_pair.py).             *)
(*                                                                         *)
(* A channel of an RGB value is an exact multiple of 1/(255 * Sub): the    *)
(* integer n stands for n / Unit, so that 255 * channel is n / Sub and the *)
(* byte boundaries k/255 are on the grid.                                  *)
(***************************************************************************)
\* Grid points per 1/255.
Sub == 4

\* The channel value 1.0.
Unit == 255 * Sub

\* RGB.__init__, lines 222-226: the three channels are stored as given.
RGB_init(red, green, blue) ==
    Returned([cls |-> "RGB", red |-> red, green |-> green, blue |-> blue])

\* int(channel * 255) with rounding to the nearest integer (halves up).
ByteRounded(channel) == (2 * channel + Sub) \div (2 * Sub)

\* int(channel * 255), lines 231-233 (and _color.py line 54): the product is
\* truncated.  The channels of the model are not negative.
Byte(channel) == channel \div Sub

\* RGB.hex with the shifts of red and green exchanged.
RGB_hex_swapped(this) ==
    Hex_init(IntArg(Byte(this.red) * 256 + Byte(this.green) * 65536
                    + Byte(this.blue)))

\* RGB.hex, lines 228-234: (r << 16) + (g << 8) + b of the three bytes.
RGB_hex(this) ==
    Hex_init(IntArg(Byte(this.red) * 65536 + Byte(this.green) * 256
                    + Byte(this.blue)))

\* byte / 255, line 91, as a channel of the grid.
Over255(byte) == byte * Sub

\* The RGB object that Hex.rgb builds from the three bytes (line 91).
RGB_of_bytes(bytes) ==
    RGB_init(Over255(bytes[1]), Over255(bytes[2]), Over255(bytes[3]))

\* Hex.rgb, lines 85-91, as an RGB object.
Hex_RGB(this) == RGB_of_bytes(Hex_rgb(this).value)

\* Color.__index__, lines 50-52: self.hex.integer.
Color_index(this) == Returned(RGB_hex(this).value.integer)

\* Color (a NamedTuple), _color.py lines 8-25.
Color_new(red, green, blue) ==
    Returned([cls |-> "Color", red |-> red, green |-> green, blue |-> blue])

\* Color.frombytes, _color.py lines 27-39: the name clamp is neither defined
\* nor imported in the module, so that evaluating the body raises NameError.
Color_frombytes(red, green, blue) == Raised("NameError")

\* Color.tobytes, _color.py lines 41-54.
Color_tobytes(this) ==
    Returned(<<Byte(this.red), Byte(this.green), Byte(this.blue)>>)

\* sqrt(dr^2 + dg^2 + db^2) < 7e-3 for channel differences in units of
\* 1/unit (melanin line 56; ochre lines 60-67 with EQUALITY_THRESHOLD, line
\* 17), decided on the squares.  A single difference of 7e-3 or more decides
\* the comparison before the squares are formed.
BelowThreshold(dr, dg, db, unit) ==
    /\ 1000 * Max(Abs(dr), Max(Abs(dg), Abs(db))) < 7 * unit
    /\ 1000000 * (dr * dr + dg * dg + db * db) < 49 * unit * unit

\* The classes derived from Color.
IsColor(value) == value.cls \in {"RGB", "Hex", "WebColor", "Ansi256", "HCL"}

\* Whether reading value.rgb succeeds.
HasRgb(value) == value.cls \in {"RGB", "Hex", "SimpleNamespace"}

\* value.rgb: RGB.rgb is the value itself (lines 246-249), Hex.rgb builds an
\* RGB, any other object gives what its attribute holds.
rgb_attr(value) ==
    IF value.cls = "RGB" THEN value
    ELSE IF value.cls = "Hex" THEN Hex_RGB(value).value
    ELSE value.rgb

\* Equality of the hexadecimal integers in place of the threshold.
ExactEqual(self_rgb, other_rgb) ==
    RGB_hex(self_rgb).value.integer = RGB_hex(other_rgb).value.integer

\* The comparison of two RGB objects against the threshold.
AlmostEqual(self_rgb, other_rgb) ==
    BelowThreshold(self_rgb.red - other_rgb.red,
                   self_rgb.green - other_rgb.green,
                   self_rgb.blue - other_rgb.blue, Unit)

\* melanin Color.__eq__, lines 54-56: other.rgb is read whatever other is;
\* an object without that attribute raises AttributeError.
Color_eq(this, other) ==
    IF ~HasRgb(other) THEN Raised("AttributeError")
    ELSE Returned(AlmostEqual(rgb_attr(this), rgb_attr(other)))

\* ochre Color.__eq__, lines 54-67: anything that is not a Color is refused.
ochre_Color_eq(this, other) ==
    IF ~IsColor(other) THEN Raised("TypeError")
    ELSE Returned(AlmostEqual(rgb_attr(this), rgb_attr(other)))

\* hash() of a colour: the class Color defines __eq__ and no __hash__
\* (melanin lines 54-56, ochre lines 54-67), so that __hash__ is None.
Color_hash(this) == Raised("TypeError")

\* Assignment to an attribute of an RGB: a plain class (ochre lines 84-95,
\* melanin lines 215-226), the attribute is rebound.
RGB_setattr(this, field, value) == [this EXCEPT ![field] = value]

\* ColorPair, color_pair.py lines 12-17: a dataclass with two fields.
ColorPair_init(foreground, background) ==
    Returned([cls |-> "ColorPair", foreground |-> foreground,
              background |-> background])

\* Assignment to a field of a ColorPair: the dataclass is not frozen.
ColorPair_setattr(this, field, value) == [this EXCEPT ![field] = value]

\* hash() of a ColorPair: dataclass with eq and without frozen sets
\* __hash__ to None.
ColorPair_hash(this) == Raised("TypeError")

hash_of(this) ==
    IF this.cls = "ColorPair" THEN ColorPair_hash(this) ELSE Color_hash(this)

\* hash(a) and hash(b), evaluated in this order.
HashSecond(first, b) ==
    IF hash_of(b).kind = "raise" THEN hash_of(b)
    ELSE Returned(<<first, hash_of(b).value>>)

HashBoth(a, b) ==
    IF hash_of(a).kind = "raise" THEN hash_of(a)
    ELSE HashSecond(hash_of(a).value, b)

(***************************************************************************)
(* The machine of the colour spaces: a value is constructed from arg, then *)
(* the operation arg.op is applied to it.                                  *)
(***************************************************************************)
\* Bytes whose neighbourhoods the channels of the model cover.
SampleBytes == {0, 127, 128, 255}

Channels == {n \in 0..Unit : n \div Sub \in SampleBytes}

CornerChannels == {0, Unit}

CornerColors ==
    {RGB_init(r, g, b).value :
        r \in CornerChannels, g \in CornerChannels, b \in {0}}

\* Values that are not colours: a text, None, and an object that is no
\* Color but has an attribute rgb.
NoneObject == [cls |-> "NoneType"]

NonColors ==
    {[cls |-> "str"], NoneObject}
    \cup {[cls |-> "SimpleNamespace", rgb |-> c] : c \in CornerColors}

LowerDigits ==
    <<"0", "1", "2", "3", "4", "5", "6", "7", "8", "9",
      "a", "b", "c", "d", "e", "f">>

UpperDigits ==
    <<"0", "1", "2", "3", "4", "5", "6", "7", "8", "9",
      "A", "B", "C", "D", "E", "F">>

\* The text of a sequence of digit values, in lower or upper case.
Render(digits, upper) ==
    [i \in 1..Len(digits) |->
        IF upper THEN UpperDigits[digits[i] + 1]
        ELSE LowerDigits[digits[i] + 1]]

DigitValues == {0, 10, 15}

DigitSeqs == UNION {[1..n -> DigitValues] : n \in 1..6}

Prefixes == {<<>>, <<"#">>, <<"0", "x">>}

HexTexts ==
    {[cls |-> "Hex", value |-> Text(p \o Render(d, u)), digits |-> d,
      prefix |-> p, upper |-> u, op |-> "rgb"] :
        d \in DigitSeqs, p \in Prefixes, u \in BOOLEAN}

HexIntegers ==
    {[cls |-> "Hex", value |-> IntArg(r * 65536 + g * 256 + b),
      op |-> "rgb.hex"] :
        r \in SampleBytes \cup {1, 254}, g \in SampleBytes \cup {1, 254},
        b \in SampleBytes \cup {1, 254}}

RgbCalls ==
    {[cls |-> "RGB", red |-> r, green |-> g, blue |-> b, op |-> op] :
        r \in Channels, g \in Channels, b \in Channels,
        op \in {"hex", "index", "hex.rgb"}}

ColorCalls ==
    {[cls |-> "Color", red |-> r, green |-> g, blue |-> b,
      op |-> "tobytes"] :
        r \in Channels, g \in Channels, b \in {0, Unit}}
    \cup {[cls |-> "Color.frombytes", red |-> r, green |-> g, blue |-> b,
           op |-> "tobytes"] :
        r \in SampleBytes, g \in SampleBytes, b \in SampleBytes}

ObjectCalls ==
    {[cls |-> "RGB", red |-> c.red, green |-> c.green, blue |-> c.blue,
      op |-> "setattr"] : c \in CornerColors}
    \cup {[cls |-> "RGB", red |-> c.red, green |-> c.green,
           blue |-> c.blue, op |-> "hash", other |-> d] :
        c \in CornerColors, d \in CornerColors}
    \cup {[cls |-> "RGB", red |-> c.red, green |-> c.green,
           blue |-> c.blue, op |-> "eq", other |-> d] :
        c \in CornerColors, d \in NonColors \cup CornerColors}

\* Channels a little more than 1/255 apart, and the far end.
NearChannels == {0, Sub + 1, 2 * (Sub + 1), Unit}

NearColors ==
    {RGB_init(r, g, 0).value : r \in NearChannels, g \in NearChannels}

\* Three colours a, b, c to be compared with each other.
TripleCalls ==
    {[cls |-> "RGB", red |-> a.red, green |-> a.green, blue |-> a.blue,
      op |-> "eq laws", other |-> b, third |-> c] :
        a \in NearColors, b \in NearColors, c \in NearColors}

PairCalls ==
    {[cls |-> "ColorPair", foreground |-> f, background |-> b, op |-> op] :
        f \in CornerColors \cup {NoneObject}, b \in CornerColors \cup {NoneObject},
        op \in {"setattr", "hash"}}

RGBInit ==
    /\ pc = "new"
    /\ arg.cls = "RGB"
    /\ Construct(RGB_init(arg.red, arg.green, arg.blue))

ColorNew ==
    /\ pc = "new"
    /\ arg.cls = "Color"
    /\ Construct(Color_new(arg.red, arg.green, arg.blue))

ColorFromBytes ==
    /\ pc = "new"
    /\ arg.cls = "Color.frombytes"
    /\ Construct(Color_frombytes(arg.red, arg.green, arg.blue))

HexInit ==
    /\ pc = "new"
    /\ arg.cls = "Hex"
    /\ Construct(Hex_init(arg.value))

ColorPairInit ==
    /\ pc = "new"
    /\ arg.cls = "ColorPair"
    /\ Construct(ColorPair_init(arg.foreground, arg.background))

\* rgb.hex
RGBHex ==
    /\ pc = "built"
    /\ self.cls = "RGB"
    /\ arg.op = "hex"
    /\ Project(RGB_hex(self))

\* hex(rgb), operator.index(rgb)
ColorIndex ==
    /\ pc = "built"
    /\ self.cls = "RGB"
    /\ arg.op = "index"
    /\ Project(Color_index(self))

\* rgb.hex.rgb == rgb
RGBHexRgbEq ==
    /\ pc = "built"
    /\ self.cls = "RGB"
    /\ arg.op = "hex.rgb"
    /\ Project(Color_eq(Hex_RGB(RGB_hex(self).value).value, self))

\* color.tobytes()
ColorToBytes ==
    /\ pc = "built"
    /\ self.cls = "Color"
    /\ arg.op = "tobytes"
    /\ Project(Color_tobytes(self))

\* hex.rgb
HexRgb ==
    /\ pc = "built"
    /\ self.cls = "Hex"
    /\ arg.op = "rgb"
    /\ Project(Hex_RGB(self))

\* hex.rgb.hex
HexRgbHex ==
    /\ pc = "built"
    /\ self.cls = "Hex"
    /\ arg.op = "rgb.hex"
    /\ Project(RGB_hex(Hex_RGB(self).value))

\* The statement self.field = value completed.
Assigned(changed) ==
    /\ self' = changed
    /\ result' = Returned(None)
    /\ pc' = "done"
    /\ UNCHANGED <<impl, arg>>
    /\ SearchUnchanged

\* rgb.red = value, and so on
RGBSetAttr ==
    /\ pc = "built"
    /\ self.cls = "RGB"
    /\ arg.op = "setattr"
    /\ \E field \in {"red", "green", "blue"}, value \in CornerChannels :
          Assigned(RGB_setattr(self, field, value))

\* pair.foreground = value, pair.background = value
ColorPairSetAttr ==
    /\ pc = "built"
    /\ self.cls = "ColorPair"
    /\ arg.op = "setattr"
    /\ \E field \in {"foreground", "background"},
          value \in CornerColors \cup {NoneObject} :
          Assigned(ColorPair_setattr(self, field, value))

\* hash(a), hash(b) of two colours
ColorHash ==
    /\ pc = "built"
    /\ self.cls = "RGB"
    /\ arg.op = "hash"
    /\ Project(HashBoth(self, arg.other))

\* pair in {pair: None}
ColorPairHash ==
    /\ pc = "built"
    /\ self.cls = "ColorPair"
    /\ arg.op = "hash"
    /\ Project(HashBoth(self, self))

\* a == other in melanin
ColorEq ==
    /\ pc = "built"
    /\ self.cls = "RGB"
    /\ arg.op = "eq"
    /\ impl = "melanin"
    /\ Project(Color_eq(self, arg.other))

\* a == other in ochre
OchreColorEq ==
    /\ pc = "built"
    /\ self.cls = "RGB"
    /\ arg.op = "eq"
    /\ impl = "ochre"
    /\ Project(ochre_Color_eq(self, arg.other))

\* a == a, a == b, b == a, b == c, a == c in melanin
ColorEqLaws ==
    /\ pc = "built"
    /\ self.cls = "RGB"
    /\ arg.op = "eq laws"
    /\ impl = "melanin"
    /\ Project(Returned(<<Color_eq(self, self).value,
                          Color_eq(self, arg.other).value,
                          Color_eq(arg.other, self).value,
                          Color_eq(arg.other, arg.third).value,
                          Color_eq(self, arg.third).value>>))

\* a == a, a == b, b == a, b == c, a == c in ochre
OchreColorEqLaws ==
    /\ pc = "built"
    /\ self.cls = "RGB"
    /\ arg.op = "eq laws"
    /\ impl = "ochre"
    /\ Project(Returned(<<ochre_Color_eq(self, self).value,
                          ochre_Color_eq(self, arg.other).value,
                          ochre_Color_eq(arg.other, self).value,
                          ochre_Color_eq(arg.other, arg.third).value,
                          ochre_Color_eq(self, arg.third).value>>))

InitSpaces ==
    /\ pc = "new"
    /\ \/ /\ impl = "melanin"
          /\ arg \in RgbCalls \cup ColorCalls \cup HexTexts \cup HexIntegers
       \/ /\ impl \in {"melanin", "ochre"}
          /\ arg \in ObjectCalls \cup TripleCalls
       \/ /\ impl = "ochre"
          /\ arg \in PairCalls
    /\ self = NoObject
    /\ result = NoResult
    /\ SearchIdle

NextSpaces ==
    \/ RGBInit
    \/ ColorNew
    \/ ColorFromBytes
    \/ HexInit
    \/ ColorPairInit
    \/ RGBHex
    \/ ColorIndex
    \/ RGBHexRgbEq
    \/ ColorToBytes
    \/ HexRgb
    \/ HexRgbHex
    \/ RGBSetAttr
    \/ ColorPairSetAttr
    \/ ColorHash
    \/ ColorPairHash
    \/ ColorEq
    \/ OchreColorEq
    \/ ColorEqLaws
    \/ OchreColorEqLaws

SpecSpaces == InitSpaces /\ [][NextSpaces]_vars

(***************************************************************************)
(* Claims on RGB, Hex and the tuple Color.                                 *)
(***************************************************************************)
\* The operation op of the value built from arg has returned or raised.
Applied(cls, op) == pc = "done" /\ self.cls = cls /\ arg.op = op

\* The byte is in 0..255 and is the channel times 255 without its
\* fraction: byte <= 255 * channel < byte + 1.
Truncates(byte, channel) ==
    /\ byte \in 0..255
    /\ byte * Sub <= channel
    /\ channel < (byte + 1) * Sub

\* C11: for every RGB with channels in [0, 1] the integer of rgb.hex is
\* floor(255 red) * 65536 + floor(255 green) * 256 + floor(255 blue), each
\* byte truncates its channel and is in 0..255, the integer is in
\* 0..0xFFFFFF; Color.tobytes gives the same three bytes.
C11_HexTruncates ==
    /\ Applied("RGB", "hex") =>
        /\ result.kind = "return"
        /\ result.value.integer \in 0..16777215
        /\ Truncates(result.value.integer \div 65536, self.red)
        /\ Truncates((result.value.integer \div 256) % 256, self.green)
        /\ Truncates(result.value.integer % 256, self.blue)
    /\ Applied("Color", "tobytes") =>
        /\ result.kind = "return"
        /\ Truncates(result.value[1], self.red)
        /\ Truncates(result.value[2], self.green)
        /\ Truncates(result.value[3], self.blue)

\* A channel strictly between two bytes and nearer to the upper one was
\* converted, by RGB.hex.
C11_Witness ==
    /\ Applied("RGB", "hex")
    /\ self.red = 127 * Sub + (Sub - 1)
    /\ self.green = Unit
    /\ result.value.integer \div 65536 = 127

\* round(num / den) as Python rounds: to the nearest integer, halves to the
\* even one.
PyRound(num, den) ==
    IF 2 * (num % den) < den THEN num \div den
    ELSE IF 2 * (num % den) > den THEN num \div den + 1
    ELSE num \div den + ((num \div den) % 2)

\* C12: for every colour with RGB projection (r, g, b) in [0, 1]^3 the
\* integer index is round(255 * (0x10000 r + 0x100 g + b)); RGB(0,0,0)
\* gives 0, RGB(0,0,1) gives 0xFF, RGB(1,1,1) gives 0xFFFFFF.
C12_IndexRounds ==
    Applied("RGB", "index") =>
        result = Returned(PyRound(65536 * self.red + 256 * self.green
                                  + self.blue, Sub))

\* C13: for every RGB with channels in [0, 1], rgb.hex.rgb == rgb is True:
\* the distance between rgb and its image after truncation to bytes and
\* division by 255 is below the threshold 7e-3.
C13_HexRoundTrip ==
    Applied("RGB", "hex.rgb") => result = Returned(TRUE)

\* All three channels lose the largest fraction of a byte the grid has.
C13_Witness ==
    /\ Applied("RGB", "hex.rgb")
    /\ self.red = 127 * Sub + (Sub - 1)
    /\ self.green = 127 * Sub + (Sub - 1)
    /\ self.blue = 128 * Sub + (Sub - 1)
    /\ result = Returned(TRUE)

RECURSIVE ValueOf(_)
\* The number a sequence of hexadecimal digit values denotes.
ValueOf(digits) ==
    IF Len(digits) = 0 THEN 0
    ELSE 16 * ValueOf(SubSeq(digits, 1, Len(digits) - 1))
         + digits[Len(digits)]

\* C15: for every text of one to six hexadecimal digits, Hex(s) holds the
\* value of the digits, whatever the prefix ('#', '0x' or none) and the
\* case of the digits; the integer is in 0..0xFFFFFF and its RGB
\* projection is (byte2 / 255, byte1 / 255, byte0 / 255).
C15_HexParsing ==
    Applied("Hex", "rgb") =>
        /\ self.integer = ValueOf(arg.digits)
        /\ self.integer \in 0..16777215
        /\ result.kind = "return"
        /\ result.value.red = (self.integer \div 65536) * Sub
        /\ result.value.green = ((self.integer \div 256) % 256) * Sub
        /\ result.value.blue = (self.integer % 256) * Sub

\* Six upper-case digits after 0x were parsed and projected.
C15_Witness ==
    /\ Applied("Hex", "rgb")
    /\ arg.prefix = <<"0", "x">>
    /\ arg.upper
    /\ arg.digits = <<15, 10, 0, 15, 15, 10>>
    /\ result.value.green = 15 * Sub

\* C20: for every byte triple (r, g, b), Color.frombytes(r, g, b).tobytes()
\* is (r, g, b), and Hex(h).rgb.hex has the integer h for every 24-bit h.
C20_ByteRoundTrip ==
    /\ (pc = "done" /\ arg.cls = "Color.frombytes") =>
        result = Returned(<<arg.red, arg.green, arg.blue>>)
    /\ Applied("Hex", "rgb.hex") =>
        /\ result.kind = "return"
        /\ result.value.integer = self.integer

(***************************************************************************)
(* Claims on the colour objects: assignment, hashing, comparison.          *)
(***************************************************************************)
\* The object the constructor built from arg.
Built ==
    IF arg.cls = "ColorPair"
    THEN ColorPair_init(arg.foreground, arg.background).value
    ELSE RGB_init(arg.red, arg.green, arg.blue).value

\* C16: every assignment to a field of a constructed RGB or ColorPair is
\* rejected with an error and leaves every field as constructed.
C16_Immutable ==
    (pc = "done" /\ arg.op = "setattr") =>
        /\ result.kind = "raise"
        /\ self = Built

\* C17: every colour and every ColorPair is hashable, and two colours that
\* are equal have equal hashes.
C17_EqualHashes ==
    /\ Applied("RGB", "hash") =>
        /\ result.kind = "return"
        /\ AlmostEqual(self, arg.other) => result.value[1] = result.value[2]
    /\ Applied("ColorPair", "hash") => result.kind = "return"

\* C18: comparing a colour with a value that is not a colour raises a type
\* error; it gives neither True nor False.
C18_NonColorRejected ==
    (pc = "done" /\ arg.op = "eq" /\ ~IsColor(arg.other)) =>
        result = Raised("TypeError")

(***************************************************************************)
(* Palette round trips (melanin/spaces.py): a palette value is projected   *)
(* to another space and searched for in its own palette.                   *)
(***************************************************************************)
\* The keys of web.colors in the order of the table, which is not among
\* the sources: the order of the specification's list, gray after grey.
web_names ==
    <<"black", "maroon", "green", "olive", "navy", "purple", "teal",
      "silver", "grey", "gray", "red", "lime", "yellow", "blue", "fuchsia",
      "aqua", "white">>

\* other.rgb for every candidate of map(WebColor, web.colors.keys()),
\* line 239.
WebCandidates ==
    [i \in 1..Len(web_names) |->
        WebColor_rgb(WebColor_init(web_names[i]).value).value]

\* other.rgb for every candidate of map(Ansi256, range(256)), line 244.
AnsiCandidates ==
    [i \in 1..256 |-> Ansi256_rgb(Ansi256_init(i - 1).value).value]

\* RGB.hcl, lines 251-254: colorsys.rgb_to_hcl is looked up in
\* melanin/colorsys.py, which defines rgb_to_lch and no rgb_to_hcl, so the
\* attribute access raises.
melanin_RGB_hcl(this) == Raised("AttributeError")

\* _closest_color_rgb is called with the query and the candidates.
CallClosest(query, candidates) ==
    /\ color' = query
    /\ colors' = candidates
    /\ pc' = "call"
    /\ UNCHANGED <<impl, arg, self, idx, minimal_color, minimal_distance,
                   result>>

\* webcolor.hex.web_color: Color.web_color (lines 76-78) of the Hex, then
\* RGB.web_color (lines 236-239).
WebColorHexWebColor ==
    /\ pc = "built"
    /\ self.cls = "WebColor"
    /\ arg.leg = "hex"
    /\ CallClosest(Hex_rgb(WebColor_hex(self).value).value, WebCandidates)

\* webcolor.rgb.web_color
WebColorRgbWebColor ==
    /\ pc = "built"
    /\ self.cls = "WebColor"
    /\ arg.leg = "rgb"
    /\ CallClosest(WebColor_rgb(self).value, WebCandidates)

\* webcolor.hcl.web_color: WebColor.hcl is self.hex.hcl (lines 132-135),
\* Hex.hcl is self.rgb.hcl (lines 93-96).
WebColorHclWebColor ==
    /\ pc = "built"
    /\ self.cls = "WebColor"
    /\ arg.leg = "hcl"
    /\ Project(melanin_RGB_hcl(WebColor_rgb(self).value))

\* ansi.rgb.ansi256
Ansi256RgbAnsi256 ==
    /\ pc = "built"
    /\ self.cls = "Ansi256"
    /\ arg.leg = "rgb"
    /\ CallClosest(Ansi256_rgb(self).value, AnsiCandidates)

InitRoundTrip ==
    /\ pc = "new"
    /\ impl = "melanin"
    /\ arg \in {[cls |-> "Ansi256", code |-> c, leg |-> "rgb"] : c \in 0..255}
          \cup {[cls |-> "WebColor", name |-> web_names[i], leg |-> leg] :
                   i \in 1..Len(web_names), leg \in {"hex", "rgb", "hcl"}}
    /\ self = NoObject
    /\ result = NoResult
    /\ SearchIdle

NextRoundTrip ==
    \/ Ansi256Init
    \/ WebColorInit
    \/ WebColorHexWebColor
    \/ WebColorRgbWebColor
    \/ WebColorHclWebColor
    \/ Ansi256RgbAnsi256
    \/ ClosestEnter
    \/ ClosestLoop
    \/ ClosestReturn

SpecRoundTrip == InitRoundTrip /\ [][NextRoundTrip]_vars

(***************************************************************************)
(* Claims on the palette round trips.                                      *)
(***************************************************************************)
\* Two colours of the palettes, in 255ths, are equal as Color.__eq__ has it.
PaletteEqual(a, b) == BelowThreshold(a[1] - b[1], a[2] - b[2], a[3] - b[3], 255)

\* C14: for every name of the table each of webcolor.hex.web_color,
\* webcolor.rgb.web_color and webcolor.hcl.web_color is a colour equal to
\* the WebColor, and Ansi256(c).rgb.ansi256 equals Ansi256(c) for every
\* code: the search returns an entry with the RGB of the value it started
\* from, the first in table order that has it.
C14_PaletteRoundTrip ==
    pc = "done" =>
        /\ result.kind = "return"
        /\ colors[result.value] = color
        /\ PaletteEqual(colors[result.value], color)
        /\ \A j \in 1..(result.value - 1) : colors[j] # color

\* The part of C14 that does not go through HCL.
C14_ThroughRgb ==
    (pc = "done" /\ arg.leg # "hcl") =>
        /\ result.kind = "return"
        /\ colors[result.value] = color
        /\ PaletteEqual(colors[result.value], color)
        /\ \A j \in 1..(result.value - 1) : colors[j] # color

(***************************************************************************)
(* Claims on the achromatic colours.                                       *)
(***************************************************************************)
\* C19: RGB black converts through rgb_to_xyz, xyz_to_luv and luv_to_lch to
\* lightness 0 and chroma 0, without a division by zero and with a hue in
\* [0, 2 pi); every LUV or LCH value of lightness 0 converts back to
\* exactly (0, 0, 0), whatever its other two coordinates are.
C19_AchromaticStable ==
    /\ (Called("rgb_to_lch") /\ arg.args = <<0, 0, 0>>) =>
        /\ result.kind = "return"
        /\ result.value[1] = 0
        /\ result.value[2] = 0
        /\ 0 <= result.value[3] /\ result.value[3] < Tau
    /\ ((Called("luv_to_rgb") \/ Called("lch_to_rgb")) /\ arg.args[1] = 0) =>
        result = Returned(<<0, 0, 0>>)

\* An LCH value of lightness 0 and chroma 1 at a hue that is no multiple of
\* a quarter turn was converted to RGB.
C19_Witness ==
    /\ Called("lch_to_rgb")
    /\ arg.args = <<0, One, FromInt(2)>>
    /\ lch_to_luv(0, One, FromInt(2)).value[2] < 0
    /\ lch_to_luv(0, One, FromInt(2)).value[3] > 0
    /\ result = Returned(<<0, 0, 0>>)

\* Black was converted to LCH.
C19_BlackConverted ==
    /\ Called("rgb_to_lch")
    /\ arg.args = <<0, 0, 0>>
    /\ result.kind = "return"

(***************************************************************************)
(* Claims on the equality of colours as a relation.                        *)
(***************************************************************************)
\* The three colours lie on a line of constant green and blue, b a little
\* more than 1/255 above a in red and c as much above b.
RedChain ==
    /\ arg.other.red = self.red + (Sub + 1)
    /\ arg.third.red = arg.other.red + (Sub + 1)
    /\ arg.other.green = self.green /\ arg.third.green = self.green
    /\ arg.other.blue = self.blue /\ arg.third.blue = self.blue

\* C21: equality below the threshold 7e-3 is reflexive and symmetric for
\* all colours and is not transitive: on a chain a, b, c of steps of about
\* 0.0049 in red, a == b and b == c hold and a == c does not.
C21_NotAnEquivalence ==
    Applied("RGB", "eq laws") =>
        /\ result.kind = "return"
        /\ result.value[1]
        /\ result.value[2] = result.value[3]
        /\ RedChain =>
              result.value[2] /\ result.value[4] /\ ~result.value[5]

\* Three colours with a == b, b == c and not a == c were compared.
C21_Witness ==
    /\ Applied("RGB", "eq laws")
    /\ result.value[2]
    /\ result.value[4]
    /\ ~result.value[5]
    /\ self # arg.other /\ arg.other # arg.third

=============================================================================
